---- MODULE Spec2Model ----
(***************************************************************************)
(* Generic CRUD repository / service layer of fastapi_auth_template, as    *)
(* instantiated for the users table (UserRepository / UserService).        *)
(*                                                                         *)
(* The relational store is one table of user rows.  A unit of work         *)
(* (AsyncSession) sees the committed rows plus its own uncommitted writes  *)
(* (`view`); commit publishes the view.  Every service method is one       *)
(* action that runs the whole method against the unit of work, recording   *)
(* the statements it executed, its outcome and the committed rows it       *)
(* started from.  CloseSession is the scope exit of the request's unit of  *)
(* work.                                                                   *)
(***************************************************************************)
EXTENDS Integers, Sequences, FiniteSets, TLC

\* ---------------------------------------------------------------- bounds
\* number of distinct identifiers uuid4 can produce in the model
MaxUsers == 2
\* largest limit / offset a query carries
MaxPage == 2

\* ------------------------------------------------------- optional values
\* Python None / SQL NULL, and a present value
None == <<>>
Some(v) == <<v>>
Get(o) == o[1]
Opt(S) == {None} \cup {Some(v) : v \in S}

\* ------------------------------------------------------------ value pools
Ids == 1..MaxUsers
\* strings are sequences of characters
EmailPool == { <<"a">>, <<"a", "b">>, <<"b">> }
PasswordPool == { <<"p">>, <<"q">> }
\* "_" is the LIKE wildcard for any one character
SearchPool == { <<"A">>, <<"_">> }
\* instants CURRENT_TIMESTAMP takes: two rows are created at the same instant
\* or one strictly after the other
Times == {0, 1}

\* ---------------------------------------------------------- HashService
\* sha256(input).hexdigest(): a digest string, different from its input and
\* different for different inputs
Generate(input) == <<"#">> \o input

\* ------------------------------------------------------------ SQL: ILIKE
Lower(c) == CASE c = "A" -> "a" [] c = "B" -> "b" [] OTHER -> c
LowerStr(s) == [i \in 1..Len(s) |-> Lower(s[i])]

RECURSIVE LikeMatch(_, _)
\* SQL LIKE: % matches any run of characters, _ any one character
LikeMatch(p, t) ==
    IF p = <<>> THEN t = <<>>
    ELSE IF Head(p) = "%"
         THEN LikeMatch(Tail(p), t) \/ (t # <<>> /\ LikeMatch(p, Tail(t)))
         ELSE /\ t # <<>>
              /\ (Head(p) = "_" \/ Head(p) = Head(t))
              /\ LikeMatch(Tail(p), Tail(t))

\* column.ilike(pattern)
ILike(text, pattern) == LikeMatch(LowerStr(pattern), LowerStr(text))

\* f"%{value}%"
Contains(value) == <<"%">> \o value \o <<"%">>

\* ------------------------------------------------------ pydantic schemas
\* a schema instance: its field values and the names given to the constructor
Schema(vals) == [kind |-> "schema", vals |-> vals, set |-> DOMAIN vals]

\* BaseModel.model_dump(exclude_unset, exclude_none)
ModelDump(obj, exclude_unset, exclude_none) ==
    LET keep == { f \in DOMAIN obj.vals :
                    /\ (exclude_unset => f \in obj.set)
                    /\ (exclude_none => obj.vals[f] # None) }
    IN [f \in keep |-> obj.vals[f]]

\* UserGetAdminSchema.model_validate(row): id, email, is_admin
UserGetAdminSchema(row) ==
    [id |-> row.id, email |-> row.email, is_admin |-> row.is_admin]

\* ------------------------------------------------------------ users table
\* UserModel: every column is NOT NULL; the values of a statement are a dict
\* from column name to an optional value, the rows hold the values themselves
RequiredColumns == {"email", "hashed_password"}

\* column defaults of UserModel applied to the values of an INSERT:
\* id = uuid4(), is_admin = False, created_at = CURRENT_TIMESTAMP
RowOf(values, uuid4, now) ==
    [id |-> IF "id" \in DOMAIN values THEN Get(values["id"]) ELSE uuid4,
     email |-> Get(values["email"]),
     hashed_password |-> Get(values["hashed_password"]),
     is_admin |-> IF "is_admin" \in DOMAIN values
                  THEN Get(values["is_admin"]) ELSE FALSE,
     created_at |-> now]

\* the row after UPDATE ... SET values
Patched(row, values) ==
    [c \in DOMAIN row |-> IF c \in DOMAIN values THEN Get(values[c]) ELSE row[c]]

\* PRIMARY KEY (id), UNIQUE (email)
UniqueHolds(rows) ==
    \A r1, r2 \in rows : (r1.id = r2.id \/ r1.email = r2.email) => r1 = r2

IdsOf(rows) == { r.id : r \in rows }

\* CURRENT_TIMESTAMP at a statement: time does not run backwards, so it is no
\* earlier than the created_at of any row already stored
Now(rows) == { t \in Times : \A r \in rows : r.created_at <= t }

\* ------------------------------------------------------- SQL: statements
\* a WHERE clause: column = value, column IS value, column ILIKE pattern,
\* or an OR of clauses
Eq(col, val) == [op |-> "eq", col |-> col, val |-> val]
Is(col, val) == [op |-> "is", col |-> col, val |-> val]
ILikeClause(col, pattern) == [op |-> "ilike", col |-> col, val |-> pattern]
\* column.isnot(None)
IsNotNone(col) == [op |-> "isnot", col |-> col, val |-> None]
Or(clauses) == [op |-> "or", col |-> "", val |-> clauses]

Holds(row, cl) ==
    CASE cl.op = "eq" -> row[cl.col] = cl.val
      [] cl.op = "is" -> row[cl.col] = cl.val
      [] cl.op = "ilike" -> ILike(row[cl.col], cl.val)
      \* every column is NOT NULL: a stored row has a value in each of them
      [] cl.op = "isnot" -> cl.col \in DOMAIN row
      [] OTHER -> FALSE

Satisfies(row, cl) ==
    IF cl.op = "or" THEN \E c \in cl.val : Holds(row, c) ELSE Holds(row, cl)

\* the rows a WHERE conjunction selects
Matching(rows, where) == { r \in rows : \A cl \in where : Satisfies(r, cl) }

\* **filter_by: one equality per keyword
FilterBy(filter_by) == { Eq(c, filter_by[c]) : c \in DOMAIN filter_by }

\* select(UserModel): no filter, no order, no pagination
Select == [where |-> {}, order_by |-> None, limit |-> None, offset |-> None]
Where(stmt, clauses) == [stmt EXCEPT !.where = @ \cup clauses]
OrderBy(stmt, col, desc) ==
    [stmt EXCEPT !.order_by = Some([col |-> col, desc |-> desc])]
Limit(stmt, limit) == [stmt EXCEPT !.limit = limit]
Offset(stmt, offset) == [stmt EXCEPT !.offset = offset]

Min(a, b) == IF a <= b THEN a ELSE b

\* every arrangement of a set of rows in a sequence
Arrangements(S) ==
    { s \in [1..Cardinality(S) -> S] :
        \A i, j \in 1..Cardinality(S) : i # j => s[i] # s[j] }

\* ORDER BY: rows with equal keys come in any order; without ORDER BY the
\* order is the store's choice
InOrder(s, order_by) ==
    \/ order_by = None
    \/ \A i, j \in 1..Len(s) : i < j =>
         IF Get(order_by).desc
         THEN s[i][Get(order_by).col] >= s[j][Get(order_by).col]
         ELSE s[i][Get(order_by).col] <= s[j][Get(order_by).col]

\* OFFSET then LIMIT; NULL means none
Paginate(s, limit, offset) ==
    LET skip == IF offset = None THEN 0 ELSE Min(Get(offset), Len(s))
        rest == [i \in 1..(Len(s) - skip) |-> s[i + skip]]
        take == IF limit = None THEN Len(rest) ELSE Min(Get(limit), Len(rest))
    IN [i \in 1..take |-> rest[i]]

\* the result sets session.execute(select) can produce
ExecuteSelect(rows, stmt) ==
    { Paginate(s, stmt.limit, stmt.offset) :
        s \in { a \in Arrangements(Matching(rows, stmt.where)) :
                  InOrder(a, stmt.order_by) } }

RECURSIVE CountStar(_)
\* func.count(): one per row of the FROM clause
CountStar(S) ==
    IF S = {} THEN 0 ELSE LET r == CHOOSE x \in S : TRUE IN 1 + CountStar(S \ {r})

\* the outcome of a write statement: the error raised (or ""), the rows the
\* unit of work sees afterwards, and the RETURNING rows
Written(rows, returning) == [error |-> "", rows |-> rows, returning |-> returning]
Raised(error, rows) == [error |-> error, rows |-> rows, returning |-> {}]

\* an INSERT into a table whose email column is not unique
ExecuteInsert_unconstrained(rows, values, uuid4, now) ==
    IF \/ ~(RequiredColumns \subseteq DOMAIN values)
       \/ \E c \in DOMAIN values : values[c] = None
    THEN Raised("IntegrityError", rows)
    ELSE LET row == RowOf(values, uuid4, now)
         IN IF \E r \in rows : r.id = row.id
            THEN Raised("IntegrityError", rows)
            ELSE Written(rows \cup {row}, {row})

\* session.execute(insert(UserModel).values(**values).returning(UserModel))
ExecuteInsert(rows, values, uuid4, now) ==
    IF \/ ~(RequiredColumns \subseteq DOMAIN values)
       \/ \E c \in DOMAIN values : values[c] = None
    THEN Raised("IntegrityError", rows)
    ELSE LET row == RowOf(values, uuid4, now)
         IN IF \E r \in rows : r.id = row.id \/ r.email = row.email
            THEN Raised("IntegrityError", rows)
            ELSE Written(rows \cup {row}, {row})

\* session.execute(update(UserModel).where(*where).values(**values)
\*                 .returning(UserModel))
ExecuteUpdate(rows, where, values) ==
    LET hit == Matching(rows, where)
        new == { Patched(r, values) : r \in hit }
        after == (rows \ hit) \cup new
    IN IF hit = {} THEN Written(rows, {})
       ELSE IF \E c \in DOMAIN values : values[c] = None
       THEN Raised("IntegrityError", rows)
       ELSE IF Cardinality(after) # Cardinality(rows) \/ ~UniqueHolds(after)
       THEN Raised("IntegrityError", rows)
       ELSE Written(after, new)

\* session.execute(delete(UserModel).filter_by(**filter_by))
ExecuteDelete(rows, where) == Written(rows \ Matching(rows, where), {})

\* ------------------------------------------------------------ repository
\* BaseRepository.create, up to the RETURNING rows
Repository_create(rows, obj_in, uuid4, now) ==
    LET create_data == IF obj_in.kind = "dict" THEN obj_in.vals
                       ELSE ModelDump(obj_in, TRUE, FALSE)
    IN ExecuteInsert(rows, create_data, uuid4, now)

\* BaseRepository.update dumping the schema without exclude_none
Repository_update_keep_none(rows, where, obj_in) ==
    LET update_data == IF obj_in.kind = "dict" THEN obj_in.vals
                       ELSE ModelDump(obj_in, TRUE, FALSE)
        w == ExecuteUpdate(rows, where, update_data)
    IN IF w.error # "" THEN w
       ELSE IF w.returning = {} THEN [w EXCEPT !.error = "NoResultFound"]
       ELSE IF Cardinality(w.returning) > 1
       THEN [w EXCEPT !.error = "MultipleResultsFound"]
       ELSE w

\* BaseRepository.update with result.scalars().first() in place of one(): no
\* error for two or more rows
Repository_update_first(rows, where, obj_in) ==
    LET update_data == IF obj_in.kind = "dict" THEN obj_in.vals
                       ELSE ModelDump(obj_in, TRUE, TRUE)
        w == ExecuteUpdate(rows, where, update_data)
    IN IF w.error # "" THEN w
       ELSE IF w.returning = {} THEN [w EXCEPT !.error = "NoResultFound"]
       ELSE [w EXCEPT !.returning = {CHOOSE r \in w.returning : TRUE}]

\* BaseRepository.update: result.scalars().one() wants exactly one row
Repository_update(rows, where, obj_in) ==
    LET update_data == IF obj_in.kind = "dict" THEN obj_in.vals
                       ELSE ModelDump(obj_in, TRUE, TRUE)
        w == ExecuteUpdate(rows, where, update_data)
    IN IF w.error # "" THEN w
       ELSE IF w.returning = {} THEN [w EXCEPT !.error = "NoResultFound"]
       ELSE IF Cardinality(w.returning) > 1
       THEN [w EXCEPT !.error = "MultipleResultsFound"]
       ELSE w

\* BaseRepository.delete building the statement without executing it
Repository_delete_unexecuted(rows, filter_by) == Written(rows, {})

\* BaseRepository.delete without .filter_by(**filter_by)
Repository_delete_unfiltered(rows, filter_by) == ExecuteDelete(rows, {})

\* BaseRepository.delete
Repository_delete(rows, filter_by) == ExecuteDelete(rows, FilterBy(filter_by))

\* BaseRepository.get_one_or_none with result.scalars().first(): the first of
\* several matches instead of an error
Repository_get_one_or_none_first(rows, filter_by) ==
    LET found == CHOOSE s \in ExecuteSelect(rows, Where(Select, FilterBy(filter_by))) :
                     TRUE
    IN IF Len(found) = 0 THEN [error |-> "", value |-> None]
       ELSE [error |-> "", value |-> Some(found[1])]

\* BaseRepository.get_one_or_none: result.scalars().one_or_none()
Repository_get_one_or_none(rows, filter_by) ==
    LET found == CHOOSE s \in ExecuteSelect(rows, Where(Select, FilterBy(filter_by))) :
                     TRUE
    IN IF Len(found) = 0 THEN [error |-> "", value |-> None]
       ELSE IF Len(found) = 1 THEN [error |-> "", value |-> Some(found[1])]
       ELSE [error |-> "MultipleResultsFound", value |-> None]

\* BaseRepository.get_all_ilike with the search conditions ANDed
Repository_get_all_ilike_and(rows, search_fields, offset, limit, filter_by) ==
    LET base == Where(Select, FilterBy(filter_by))
        search_conditions ==
            { ILikeClause(f, Contains(search_fields[f])) : f \in DOMAIN search_fields }
    IN ExecuteSelect(rows, Limit(Offset(Where(base, search_conditions), offset), limit))

\* BaseRepository.get_all_ilike: the lists it can return
Repository_get_all_ilike(rows, search_fields, offset, limit, filter_by) ==
    LET base == Where(Select, FilterBy(filter_by))
        search_conditions ==
            { ILikeClause(f, Contains(search_fields[f])) : f \in DOMAIN search_fields }
        stmt == IF search_conditions # {}
                THEN Where(base, {Or(search_conditions)}) ELSE base
    IN ExecuteSelect(rows, Limit(Offset(stmt, offset), limit))

\* BaseRepository.get_all_sorted always sorting ascending
Repository_get_all_sorted_ascending(rows, sort_field, ascending, limit, filter_by) ==
    ExecuteSelect(rows,
        Limit(OrderBy(Where(Select, {IsNotNone(sort_field)} \cup FilterBy(filter_by)),
                      sort_field, FALSE),
              limit))

\* BaseRepository.get_all_sorted: the lists it can return
Repository_get_all_sorted(rows, sort_field, ascending, limit, filter_by) ==
    LET sort_order == [col |-> sort_field, desc |-> ~ascending]
        stmt == Where(Select, {IsNotNone(sort_field)} \cup FilterBy(filter_by))
    IN ExecuteSelect(rows, Limit(OrderBy(stmt, sort_order.col, sort_order.desc), limit))

\* BaseRepository.get_all_with_pagination_from_stmt with limit and offset
\* exchanged
Repository_get_all_with_pagination_swapped(rows, limit, offset, stmt) ==
    ExecuteSelect(rows, Offset(Limit(stmt, offset), limit))

\* BaseRepository.get_all_with_pagination_from_stmt: the lists it can return
Repository_get_all_with_pagination_from_stmt(rows, limit, offset, stmt) ==
    ExecuteSelect(rows, Offset(Limit(stmt, limit), offset))

\* BaseRepository.count without .filter_by(**filter_by)
Repository_count_unfiltered(rows, filter_by) == CountStar(rows)

\* BaseRepository.count
Repository_count(rows, filter_by) ==
    CountStar(Matching(rows, FilterBy(filter_by)))

\* BaseRepository.count_all_ilike: len(result.scalars().all())
Repository_count_all_ilike(rows, search_fields, filter_by) ==
    LET base == Where(Select, FilterBy(filter_by))
        search_conditions ==
            { ILikeClause(f, Contains(search_fields[f])) : f \in DOMAIN search_fields }
        stmt == IF search_conditions # {}
                THEN Where(base, {Or(search_conditions)}) ELSE base
        all == CHOOSE s \in ExecuteSelect(rows, stmt) : TRUE
    IN Len(all)

\* BaseRepository.count_subquery: select(func.count()).select_from(stmt.subquery())
Repository_count_subquery(rows, stmt) ==
    LET subquery == CHOOSE s \in ExecuteSelect(rows, stmt) : TRUE
    IN CountStar({ subquery[i] : i \in 1..Len(subquery) })

\* bool(str | None) in Python: neither None nor ""
Truthy(o) == o # None /\ Get(o) # <<>>

\* UserRepository.get_stmt_by_query: the query's id, limit and offset are not read
UserRepository_get_stmt_by_query(query_params) ==
    LET s0 == Select
        s1 == IF Truthy(query_params.email)
              THEN Where(s0, {ILikeClause("email", Contains(Get(query_params.email)))})
              ELSE s0
        s2 == IF query_params.is_admin # None
              THEN IF Get(query_params.is_admin)
                   THEN Where(s1, {Is("is_admin", TRUE)})
                   ELSE Where(s1, {Is("is_admin", FALSE)})
              ELSE s1
    IN IF ~query_params.asc
       THEN OrderBy(s2, "created_at", TRUE)
       ELSE OrderBy(s2, "created_at", FALSE)

\* -------------------------------------------------------------- services
\* how a service method ends: the exception raised (or "") with the exception
\* it wraps, the value returned, the statements executed in order, the rows
\* the unit of work sees afterwards, and the rows published by session.commit()
Returned(result, log, rows, committed) ==
    [error |-> "", cause |-> "", result |-> result, log |-> log,
     rows |-> rows, committed |-> committed]
Failed(error, cause, log, rows) ==
    [error |-> error, cause |-> cause, result |-> None, log |-> log,
     rows |-> rows, committed |-> None]

\* UserService.create without the except clause: the IntegrityError escapes
UserService_create_uncaught(rows, data, uuid4, now) ==
    LET repo_data == Schema([email |-> Some(data.email),
                             hashed_password |-> Some(Generate(data.password))])
        w == Repository_create(rows, repo_data, uuid4, now)
    IN IF w.error # ""
       THEN Failed(w.error, "", <<"INSERT">>, w.rows)
       ELSE Returned(UserGetAdminSchema(CHOOSE r \in w.returning : TRUE),
                     <<"INSERT", "COMMIT">>, w.rows, Some(w.rows))

\* UserService.create
UserService_create(rows, data, uuid4, now) ==
    LET hashed_password == Generate(data.password)
        repo_data == Schema([email |-> Some(data.email),
                             hashed_password |-> Some(hashed_password)])
        w == Repository_create(rows, repo_data, uuid4, now)
    IN IF w.error = "IntegrityError"
       THEN Failed("ConflictException", "IntegrityError", <<"INSERT">>, w.rows)
       ELSE LET user == CHOOSE r \in w.returning : TRUE
            IN Returned(UserGetAdminSchema(user), <<"INSERT", "COMMIT">>,
                        w.rows, Some(w.rows))

\* BaseService.get_by_id without the None check: a missing record is returned
\* as None
BaseService_get_by_id_unchecked(rows, id) ==
    LET obj_db == Repository_get_one_or_none(rows, [id |-> id])
    IN IF obj_db.value = None
       THEN Returned(None, <<"SELECT">>, rows, None)
       ELSE Returned(UserGetAdminSchema(Get(obj_db.value)), <<"SELECT">>, rows, None)

\* BaseService.get_by_id
BaseService_get_by_id(rows, id) ==
    LET obj_db == Repository_get_one_or_none(rows, [id |-> id])
    IN IF obj_db.error # "" THEN Failed(obj_db.error, "", <<"SELECT">>, rows)
       ELSE IF obj_db.value = None
       THEN Failed("NotFoundException", "", <<"SELECT">>, rows)
       ELSE Returned(UserGetAdminSchema(Get(obj_db.value)), <<"SELECT">>, rows, None)

\* UserService.update storing the password as given instead of its hash
UserService_update_unhashed(rows, user_id, data) ==
    LET found == BaseService_get_by_id(rows, user_id)
        obj_in == Schema([email |-> data.email,
                          hashed_password |-> IF Truthy(data.password)
                                              THEN data.password ELSE None,
                          is_admin |-> IF data.schema = "UserUpdateAdminSchema"
                                       THEN data.is_admin ELSE None])
        w == Repository_update(rows, {Eq("id", user_id)}, obj_in)
    IN IF found.error # "" THEN found
       ELSE IF w.error = "IntegrityError"
       THEN Failed("ConflictException", "IntegrityError",
                   found.log \o <<"UPDATE">>, w.rows)
       ELSE IF w.error # ""
       THEN Failed(w.error, "", found.log \o <<"UPDATE">>, w.rows)
       ELSE Returned(UserGetAdminSchema(CHOOSE r \in w.returning : TRUE),
                     found.log \o <<"UPDATE", "COMMIT">>, w.rows, Some(w.rows))

\* UserService.update hashing every password that is not None, the empty one too
UserService_update_hashing_empty(rows, user_id, data) ==
    LET found == BaseService_get_by_id(rows, user_id)
        obj_in == Schema([email |-> data.email,
                          hashed_password |-> IF data.password # None
                                              THEN Some(Generate(Get(data.password)))
                                              ELSE None,
                          is_admin |-> IF data.schema = "UserUpdateAdminSchema"
                                       THEN data.is_admin ELSE None])
        w == Repository_update(rows, {Eq("id", user_id)}, obj_in)
    IN IF found.error # "" THEN found
       ELSE IF w.error = "IntegrityError"
       THEN Failed("ConflictException", "IntegrityError",
                   found.log \o <<"UPDATE">>, w.rows)
       ELSE IF w.error # ""
       THEN Failed(w.error, "", found.log \o <<"UPDATE">>, w.rows)
       ELSE Returned(UserGetAdminSchema(CHOOSE r \in w.returning : TRUE),
                     found.log \o <<"UPDATE", "COMMIT">>, w.rows, Some(w.rows))

\* UserService.update passing is_admin = False, not None, for a non-admin input
UserService_update_demoting(rows, user_id, data) ==
    LET found == BaseService_get_by_id(rows, user_id)
        obj_in == Schema([email |-> data.email,
                          hashed_password |-> IF Truthy(data.password)
                                              THEN Some(Generate(Get(data.password)))
                                              ELSE None,
                          is_admin |-> IF data.schema = "UserUpdateAdminSchema"
                                       THEN data.is_admin ELSE Some(FALSE)])
        w == Repository_update(rows, {Eq("id", user_id)}, obj_in)
    IN IF found.error # "" THEN found
       ELSE IF w.error = "IntegrityError"
       THEN Failed("ConflictException", "IntegrityError",
                   found.log \o <<"UPDATE">>, w.rows)
       ELSE IF w.error # ""
       THEN Failed(w.error, "", found.log \o <<"UPDATE">>, w.rows)
       ELSE Returned(UserGetAdminSchema(CHOOSE r \in w.returning : TRUE),
                     found.log \o <<"UPDATE", "COMMIT">>, w.rows, Some(w.rows))

\* UserService.update writing the password and is_admin in one UPDATE and the
\* email in a second one
UserService_update_two_writes(rows, user_id, data) ==
    LET found == BaseService_get_by_id(rows, user_id)
        first == Schema([email |-> None,
                         hashed_password |-> IF Truthy(data.password)
                                             THEN Some(Generate(Get(data.password)))
                                             ELSE None,
                         is_admin |-> IF data.schema = "UserUpdateAdminSchema"
                                      THEN data.is_admin ELSE None])
        second == Schema([email |-> data.email, hashed_password |-> None,
                          is_admin |-> None])
        w1 == Repository_update(rows, {Eq("id", user_id)}, first)
        w2 == Repository_update(w1.rows, {Eq("id", user_id)}, second)
    IN IF found.error # "" THEN found
       ELSE IF w2.error = "IntegrityError"
       THEN Failed("ConflictException", "IntegrityError",
                   found.log \o <<"UPDATE", "UPDATE">>, w2.rows)
       ELSE IF w2.error # ""
       THEN Failed(w2.error, "", found.log \o <<"UPDATE", "UPDATE">>, w2.rows)
       ELSE Returned(UserGetAdminSchema(CHOOSE r \in w2.returning : TRUE),
                     found.log \o <<"UPDATE", "UPDATE", "COMMIT">>, w2.rows,
                     Some(w2.rows))

\* UserService.update without the except clause: the IntegrityError escapes
UserService_update_uncaught(rows, user_id, data) ==
    LET found == BaseService_get_by_id(rows, user_id)
        obj_in == Schema([email |-> data.email,
                          hashed_password |-> IF Truthy(data.password)
                                              THEN Some(Generate(Get(data.password)))
                                              ELSE None,
                          is_admin |-> IF data.schema = "UserUpdateAdminSchema"
                                       THEN data.is_admin ELSE None])
        w == Repository_update(rows, {Eq("id", user_id)}, obj_in)
    IN IF found.error # "" THEN found
       ELSE IF w.error # ""
       THEN Failed(w.error, "", found.log \o <<"UPDATE">>, w.rows)
       ELSE Returned(UserGetAdminSchema(CHOOSE r \in w.returning : TRUE),
                     found.log \o <<"UPDATE", "COMMIT">>, w.rows, Some(w.rows))

\* UserService.update
UserService_update(rows, user_id, data) ==
    LET found == BaseService_get_by_id(rows, user_id)
        hashed_password == IF Truthy(data.password)
                           THEN Some(Generate(Get(data.password))) ELSE None
        obj_in == Schema([email |-> data.email,
                          hashed_password |-> hashed_password,
                          is_admin |-> IF data.schema = "UserUpdateAdminSchema"
                                       THEN data.is_admin ELSE None])
        w == Repository_update(rows, {Eq("id", user_id)}, obj_in)
    IN IF found.error # "" THEN found
       ELSE IF w.error = "IntegrityError"
       THEN Failed("ConflictException", "IntegrityError",
                   found.log \o <<"UPDATE">>, w.rows)
       ELSE IF w.error # ""
       THEN Failed(w.error, "", found.log \o <<"UPDATE">>, w.rows)
       ELSE LET updated_user == CHOOSE r \in w.returning : TRUE
            IN Returned(UserGetAdminSchema(updated_user),
                        found.log \o <<"UPDATE", "COMMIT">>, w.rows, Some(w.rows))

\* BaseService.delete whose DELETE carries no id filter
BaseService_delete_all(rows, id) ==
    LET found == BaseService_get_by_id(rows, id)
        w == Repository_delete(rows, [c \in {} |-> id])
    IN IF found.error # "" THEN found
       ELSE Returned(None, found.log \o <<"DELETE", "COMMIT">>, w.rows, Some(w.rows))

\* BaseService.delete without session.commit()
BaseService_delete_uncommitted(rows, id) ==
    LET found == BaseService_get_by_id(rows, id)
        w == Repository_delete(rows, [id |-> id])
    IN IF found.error # "" THEN found
       ELSE Returned(None, found.log \o <<"DELETE">>, w.rows, None)

\* BaseService.delete without the lookup that confirms the record exists
BaseService_delete_unchecked(rows, id) ==
    LET w == Repository_delete(rows, [id |-> id])
    IN Returned(None, <<"DELETE", "COMMIT">>, w.rows, Some(w.rows))

\* BaseService.delete
BaseService_delete(rows, id) ==
    LET found == BaseService_get_by_id(rows, id)
        w == Repository_delete(rows, [id |-> id])
    IN IF found.error # "" THEN found
       ELSE Returned(None, found.log \o <<"DELETE", "COMMIT">>, w.rows, Some(w.rows))

\* DataListReadBaseSchema(count=, data=): asc keeps its default, True
UserListGetSchema(count, data) == [count |-> count, data |-> data, asc |-> TRUE]

\* BaseService.get_all answering an empty page with an empty list
BaseService_get_all_empty_list(rows, query_params, objects_db) ==
    LET base_stmt == UserRepository_get_stmt_by_query(query_params)
    IN Returned(UserListGetSchema(
                    Repository_count_subquery(rows, base_stmt),
                    [i \in 1..Len(objects_db) |-> UserGetAdminSchema(objects_db[i])]),
                <<"SELECT", "COUNT">>, rows, None)

\* BaseService.get_all, for one of the pages the store can return
BaseService_get_all(rows, query_params, objects_db) ==
    LET base_stmt == UserRepository_get_stmt_by_query(query_params)
        objects_count == Repository_count_subquery(rows, base_stmt)
        objects_schema == [i \in 1..Len(objects_db) |-> UserGetAdminSchema(objects_db[i])]
    IN IF Len(objects_db) = 0
       THEN Failed("NotFoundException", "", <<"SELECT">>, rows)
       ELSE Returned(UserListGetSchema(objects_count, objects_schema),
                     <<"SELECT", "COUNT">>, rows, None)

\* ------------------------------------------------------------------- auth
\* JWTService.create_tokens(user_id): the token pair issued for a user
JWTService_create_tokens(user_id) == [user_id |-> user_id, token_type |-> "Bearer"]

\* AuthService.register issuing the tokens whether or not the user was created
AuthService_register_unconditional(rows, schema, uuid4, now) ==
    LET user == UserService_create(rows, schema, uuid4, now)
    IN [user EXCEPT !.result = JWTService_create_tokens(uuid4),
                    !.log = @ \o <<"create_tokens">>]

\* AuthService.register
AuthService_register(rows, schema, uuid4, now) ==
    LET user == UserService_create(rows, schema, uuid4, now)
    IN IF user.error # "" THEN user
       ELSE LET tokens == JWTService_create_tokens(user.result.id)
            IN [user EXCEPT !.result = tokens, !.log = @ \o <<"create_tokens">>]

\* AuthService.login looking the user up by email alone
AuthService_login_by_email(rows, schema) ==
    LET user == Repository_get_one_or_none(rows, [email |-> schema.email])
    IN IF user.value = None
       THEN Failed("NotFoundException", "", <<"SELECT">>, rows)
       ELSE Returned(JWTService_create_tokens(Get(user.value).id),
                     <<"SELECT", "create_tokens">>, rows, None)

\* AuthService.login
AuthService_login(rows, schema) ==
    LET hashed_password == Generate(schema.password)
        user == Repository_get_one_or_none(
                    rows, [email |-> schema.email, hashed_password |-> hashed_password])
    IN IF user.error # "" THEN Failed(user.error, "", <<"SELECT">>, rows)
       ELSE IF user.value = None
       THEN Failed("NotFoundException", "", <<"SELECT">>, rows)
       ELSE LET tokens == JWTService_create_tokens(Get(user.value).id)
            IN Returned(tokens, <<"SELECT", "create_tokens">>, rows, None)

\* ------------------------------------------------------------------ state
VARIABLES
    users,     \* the committed rows of the users table
    view,      \* the rows the current unit of work sees (committed + its own writes)
    call,      \* the call made in the current unit of work and how it ended
    deleted,   \* history: identifiers deleted by the service with no create since
    passwords, \* history: per identifier, the password last set through the service
    settings,  \* Settings(): the configuration read from the environment at start
    reqs       \* the requests in flight when requests run concurrently

vars == <<users, view, call, deleted, passwords, settings, reqs>>

\* the requests that can be in flight together
Requests == {"r1", "r2"}

\* a request slot with no request in it
Free == [op |-> "none", args |-> None, pc |-> "free", pending |-> None,
         page |-> <<>>, error |-> "", result |-> None, before |-> {},
         during |-> {}]

\* the environments the service can be started in
Environment == [MODE : {"DEV", "TEST", "PROD"}, APP_VERSION : {"0.1.0", "0.2.0"}]

Idle == [op |-> "idle", args |-> None, error |-> "", cause |-> "", result |-> None,
         log |-> <<>>, before |-> {}]

Init ==
    /\ users = {}
    /\ view = {}
    /\ call = Idle
    /\ deleted = {}
    /\ passwords = [id \in Ids |-> None]
    /\ settings = [MODE |-> "TEST", APP_VERSION |-> "0.1.0"]
    /\ reqs = [r \in Requests |-> Free]

\* the password last set for each identifier once a service call has committed
LastSet(op, args, committed) ==
    CASE op \in {"create", "register"} ->
           [id \in Ids |-> IF id \in IdsOf(committed) \ IdsOf(users)
                           THEN Some(args.password) ELSE passwords[id]]
      [] op = "update" ->
           IF args.data.password # None /\ Get(args.data.password) # <<>>
           THEN [passwords EXCEPT ![args.id] = args.data.password]
           ELSE passwords
      [] op = "delete" -> [passwords EXCEPT ![args.id] = None]
      [] OTHER -> passwords

\* a service or repository call made on a fresh unit of work
Perform(op, args, out) ==
    /\ call' = [op |-> op, args |-> args, error |-> out.error, cause |-> out.cause,
                result |-> out.result, log |-> out.log, before |-> users]
    /\ view' = out.rows
    /\ users' = IF out.committed = None THEN users ELSE Get(out.committed)
    /\ passwords' = IF out.committed = None THEN passwords
                    ELSE LastSet(op, args, Get(out.committed))
    /\ UNCHANGED <<settings, reqs>>

\* ---------------------------------------------------------------- inputs
\* UserCreateSchema(email, password) and UserCreateAdminSchema(..., is_admin)
CreateInputs ==
    [schema : {"UserCreateSchema"}, email : EmailPool, password : PasswordPool,
     is_admin : {None}]
    \cup
    [schema : {"UserCreateAdminSchema"}, email : EmailPool, password : PasswordPool,
     is_admin : {Some(TRUE), Some(FALSE)}]

\* UserUpdateSchema and UserUpdateAdminSchema; an omitted field is None
UpdateInputs ==
    [schema : {"UserUpdateSchema"}, email : Opt(EmailPool),
     password : Opt(PasswordPool \cup {<<>>}), is_admin : {None}]
    \cup
    [schema : {"UserUpdateAdminSchema"}, email : Opt(EmailPool),
     password : Opt(PasswordPool \cup {<<>>}), is_admin : {Some(TRUE), Some(FALSE)}]

\* the limits a list call is given: none of the records, one, or a page
Limits == {0, 1, MaxPage}
\* the offsets a list query is given: the start, one record in, or a page in
Offsets == {0, 1, MaxPage}

\* UsersQuerySchema: queries without an id, and queries that carry an id and no
\* other filter
QueryInputs ==
    [offset : Offsets, limit : Opt(Limits), id : {None},
     email : Opt(SearchPool), is_admin : Opt(BOOLEAN), asc : BOOLEAN]
    \cup
    [offset : {0}, limit : {None}, id : {Some(id) : id \in Ids},
     email : {None}, is_admin : {None}, asc : {FALSE}]

\* the queries handed to count_subquery: get_stmt_by_query reads neither limit
\* nor offset, two values of each are enough
CountQueryInputs ==
    { q \in QueryInputs : q.asc /\ q.limit \in {None, Some(1)} /\ q.offset \in {0, 1} }

\* **filter_by keyword arguments
FilterByPool ==
    { [c \in {} |-> TRUE], [is_admin |-> TRUE], [is_admin |-> FALSE],
      [email |-> <<"a">>] }

\* **filter_by of the list calls of the repository
ListFilterByPool == { [c \in {} |-> TRUE], [is_admin |-> FALSE] }

\* search_fields: column -> substring
SearchFieldsPool ==
    { [c \in {} |-> <<>>], [email |-> <<"A">>], [email |-> <<"_">>],
      [email |-> <<"b">>, hashed_password |-> <<"Q">>] }

\* UserLoginSchema(email, password)
LoginInputs == [email : EmailPool, password : PasswordPool]

\* a dict passed as obj_in
Dict(vals) == [kind |-> "dict", vals |-> vals, set |-> DOMAIN vals]

\* obj_in of a repository create: a schema, or a dict that also sets is_admin
RepositoryCreateInputs ==
    { Schema([email |-> Some(e), hashed_password |-> Some(Generate(<<"p">>))]) :
        e \in EmailPool }
    \cup { Dict([email |-> Some(<<"b">>), hashed_password |-> Some(Generate(<<"q">>)),
                is_admin |-> Some(TRUE)]) }

\* *where of a repository update: one identifier, or a condition several
\* records can satisfy
WherePool == { {Eq("id", id)} : id \in Ids } \cup { {Is("is_admin", FALSE)} }

\* obj_in of a repository update
PatchPool ==
    { Schema([email |-> None, hashed_password |-> Some(Generate(<<"q">>)),
              is_admin |-> None]),
      Dict([is_admin |-> Some(TRUE)]),
      Dict([is_admin |-> Some(TRUE), hashed_password |-> None]),
      Dict([email |-> Some(<<"b">>)]) }

\* sort_field of get_all_sorted
SortFieldPool == {"created_at", "id"}

\* ---------------------------------------------------------------- actions
Create ==
    /\ call = Idle
    /\ Cardinality(view) < MaxUsers
    /\ \E data \in CreateInputs, uuid4 \in Ids \ IdsOf(view), now \in Now(view) :
         LET out == UserService_create(view, data, uuid4, now)
         IN /\ Perform("create", data, out)
            /\ deleted' = IF out.error = "" THEN {} ELSE deleted

GetById ==
    /\ call = Idle
    /\ \E id \in Ids :
         /\ Perform("get_by_id", [id |-> id], BaseService_get_by_id(view, id))
         /\ UNCHANGED deleted

Update ==
    /\ call = Idle
    /\ \E id \in Ids, data \in UpdateInputs :
         /\ Perform("update", [id |-> id, data |-> data],
                    UserService_update(view, id, data))
         /\ UNCHANGED deleted

Delete ==
    /\ call = Idle
    /\ \E id \in Ids :
         LET out == BaseService_delete(view, id)
         IN /\ Perform("delete", [id |-> id], out)
            /\ deleted' = IF out.error = "" THEN deleted \cup {id} ELSE deleted

GetAll ==
    /\ call = Idle
    /\ \E q \in QueryInputs :
         \E objects_db \in Repository_get_all_with_pagination_from_stmt(
                               view, q.limit, Some(q.offset),
                               UserRepository_get_stmt_by_query(q)) :
            /\ Perform("get_all", q, BaseService_get_all(view, q, objects_db))
            /\ UNCHANGED deleted

\* BaseRepository.count called in a unit of work
RepositoryCount ==
    /\ call = Idle
    /\ \E filter_by \in FilterByPool :
         /\ Perform("count", [filter_by |-> filter_by],
                    Returned(Repository_count(view, filter_by), <<"COUNT">>, view, None))
         /\ UNCHANGED deleted

\* BaseRepository.count_all_ilike called in a unit of work
RepositoryCountAllIlike ==
    /\ call = Idle
    /\ \E search_fields \in SearchFieldsPool, filter_by \in FilterByPool :
         /\ Perform("count_all_ilike",
                    [search_fields |-> search_fields, filter_by |-> filter_by],
                    Returned(Repository_count_all_ilike(view, search_fields, filter_by),
                             <<"SELECT">>, view, None))
         /\ UNCHANGED deleted

\* BaseRepository.count_subquery called with the statement of a list query
RepositoryCountSubquery ==
    /\ call = Idle
    /\ \E q \in CountQueryInputs :
         /\ Perform("count_subquery", q,
                    Returned(Repository_count_subquery(
                                 view, UserRepository_get_stmt_by_query(q)),
                             <<"COUNT">>, view, None))
         /\ UNCHANGED deleted

\* AuthService.register called in a unit of work
Register ==
    /\ call = Idle
    /\ Cardinality(view) < MaxUsers
    /\ \E schema \in { d \in CreateInputs : d.schema = "UserCreateSchema" },
          uuid4 \in Ids \ IdsOf(view), now \in Now(view) :
         LET out == AuthService_register(view, schema, uuid4, now)
         IN /\ Perform("register", schema, out)
            /\ deleted' = IF out.error = "" THEN {} ELSE deleted

\* AuthService.login called in a unit of work
Login ==
    /\ call = Idle
    /\ \E schema \in LoginInputs :
         /\ Perform("login", schema, AuthService_login(view, schema))
         /\ UNCHANGED deleted

\* BaseRepository.create called in a unit of work that ends without a commit
RepositoryCreate ==
    /\ call = Idle
    /\ Cardinality(view) < MaxUsers
    /\ \E obj_in \in RepositoryCreateInputs, uuid4 \in Ids \ IdsOf(view),
          now \in Now(view) :
         LET w == Repository_create(view, obj_in, uuid4, now)
         IN /\ Perform("repository_create", [obj_in |-> obj_in],
                       IF w.error # "" THEN Failed(w.error, "", <<"INSERT">>, w.rows)
                       ELSE Returned(CHOOSE r \in w.returning : TRUE,
                                     <<"INSERT">>, w.rows, None))
            /\ UNCHANGED deleted

\* BaseRepository.get_one_or_none called in a unit of work
RepositoryGetOneOrNone ==
    /\ call = Idle
    /\ \E filter_by \in FilterByPool :
         LET found == Repository_get_one_or_none(view, filter_by)
         IN /\ Perform("get_one_or_none", [filter_by |-> filter_by],
                       IF found.error # ""
                       THEN Failed(found.error, "", <<"SELECT">>, view)
                       ELSE Returned(found.value, <<"SELECT">>, view, None))
            /\ UNCHANGED deleted

\* BaseRepository.get_all_ilike called in a unit of work
RepositoryGetAllIlike ==
    /\ call = Idle
    /\ \E search_fields \in SearchFieldsPool, offset \in 0..1, limit \in Limits,
          filter_by \in ListFilterByPool :
         \E all \in Repository_get_all_ilike(view, search_fields, Some(offset),
                                             Some(limit), filter_by) :
            /\ Perform("get_all_ilike",
                       [search_fields |-> search_fields, offset |-> offset,
                        limit |-> limit, filter_by |-> filter_by],
                       Returned(all, <<"SELECT">>, view, None))
            /\ UNCHANGED deleted

\* BaseRepository.get_all_sorted called in a unit of work
RepositoryGetAllSorted ==
    /\ call = Idle
    /\ \E sort_field \in SortFieldPool, ascending \in BOOLEAN,
          limit \in Opt(Limits), filter_by \in ListFilterByPool :
         \E all \in Repository_get_all_sorted(view, sort_field, ascending, limit,
                                              filter_by) :
            /\ Perform("get_all_sorted",
                       [sort_field |-> sort_field, ascending |-> ascending,
                        limit |-> limit, filter_by |-> filter_by],
                       Returned(all, <<"SELECT">>, view, None))
            /\ UNCHANGED deleted

\* BaseRepository.update called in a unit of work that ends without a commit
RepositoryUpdate ==
    /\ call = Idle
    /\ \E where \in WherePool, obj_in \in PatchPool :
         LET w == Repository_update(view, where, obj_in)
         IN /\ Perform("repository_update", [where |-> where, obj_in |-> obj_in],
                       IF w.error # "" THEN Failed(w.error, "", <<"UPDATE">>, w.rows)
                       ELSE Returned(w.returning, <<"UPDATE">>, w.rows, None))
            /\ UNCHANGED deleted

\* BaseRepository.delete called in a unit of work that ends without a commit
RepositoryDelete ==
    /\ call = Idle
    /\ \E filter_by \in FilterByPool :
         LET w == Repository_delete(view, filter_by)
         IN /\ Perform("repository_delete", [filter_by |-> filter_by],
                       Returned(None, <<"DELETE">>, w.rows, None))
            /\ UNCHANGED deleted

\* HealthCheckSchema answering with one mode whatever the settings are
HealthCheckSchema_dev == [mode |-> "DEV", version |-> settings.APP_VERSION, status |-> "OK"]

\* HealthCheckSchema(): every field takes its default
HealthCheckSchema ==
    [mode |-> settings.MODE, version |-> settings.APP_VERSION, status |-> "OK"]

\* GET /health_check: no session, no statement
HealthCheck ==
    /\ call = Idle
    /\ Perform("health_check", None, Returned(HealthCheckSchema, <<>>, view, None))
    /\ UNCHANGED deleted

\* the unit of work goes out of scope: what it did not commit is rolled back
CloseSession ==
    /\ call # Idle
    /\ call' = Idle
    /\ view' = users
    /\ UNCHANGED <<users, deleted, passwords, settings, reqs>>

Next ==
    \/ Create
    \/ GetById
    \/ Update
    \/ Delete
    \/ GetAll
    \/ RepositoryCount
    \/ RepositoryCountAllIlike
    \/ RepositoryCountSubquery
    \/ Register
    \/ Login
    \/ RepositoryCreate
    \/ RepositoryGetOneOrNone
    \/ RepositoryGetAllIlike
    \/ RepositoryGetAllSorted
    \/ RepositoryUpdate
    \/ RepositoryDelete
    \/ CloseSession

Spec == Init /\ [][Next]_vars

\* The health check under every configuration the settings admit, between
\* calls that change the store.
HealthInit ==
    /\ users = {}
    /\ view = {}
    /\ call = Idle
    /\ deleted = {}
    /\ passwords = [id \in Ids |-> None]
    /\ settings \in Environment
    /\ reqs = [r \in Requests |-> Free]

HealthNext ==
    \/ Create
    \/ GetById
    \/ Delete
    \/ HealthCheck
    \/ CloseSession

HealthSpec == HealthInit /\ [][HealthNext]_vars

\* ---------------------------------------------------- concurrent requests
\* Each request runs its service method in a unit of work of its own, one
\* statement at a time; the store runs the statements of different units of
\* work in any order, each reading the rows committed when it runs.
\* The calls a concurrent request makes
ConcEmails == { <<"a">>, <<"b">> }
ConcQuery == [offset |-> 0, limit |-> None, id |-> None, email |-> None,
              is_admin |-> None, asc |-> FALSE]
ConcCalls ==
    [op : {"create", "register"},
     args : [schema : {"UserCreateSchema"}, email : ConcEmails,
             password : {<<"p">>}, is_admin : {None}]]
    \cup
    [op : {"update"},
     args : [id : Ids,
             data : [schema : {"UserUpdateSchema"},
                     email : {Some(e) : e \in ConcEmails},
                     password : {None}, is_admin : {None}]]]
    \cup
    [op : {"delete"}, args : [id : Ids]]
    \cup
    [op : {"get_all"}, args : {ConcQuery}]

\* the first statement of each service method
FirstStatement(op) ==
    CASE op \in {"create", "register"} -> "insert"
      [] op \in {"update", "delete"} -> "check"
      [] op = "get_all" -> "page"

\* the uncommitted writes of the units of work other than r's
OtherWrites(r) ==
    { Get(reqs[o].pending) : o \in { o \in Requests \ {r} : reqs[o].pending # None } }

\* A statement that writes a row another unit of work has written and not yet
\* committed, or that writes a unique email another unit of work has written
\* or removed and not yet committed, waits for that unit of work to end.
Waits(r, ids, emails) ==
    \E p \in OtherWrites(r) :
       \/ ids \cap p.ids # {}
       \/ emails \cap { u.email : u \in p.del \cup p.put } # {}

\* what a statement that took rows to out_rows leaves to be committed
Write(ids, rows, out_rows) ==
    Some([ids |-> ids, del |-> rows \ out_rows, put |-> out_rows \ rows])

\* the request has ended with what its service method returned or raised
Done(r, out) ==
    reqs' = [reqs EXCEPT ![r].pc = "done", ![r].error = out.error,
                         ![r].result = out.result, ![r].pending = None]

\* UserService.update after get_by_id: the UPDATE statement and the handling
\* of what it raises
UserService_update_statement(rows, user_id, data) ==
    LET hashed_password == IF Truthy(data.password)
                           THEN Some(Generate(Get(data.password))) ELSE None
        obj_in == Schema([email |-> data.email,
                          hashed_password |-> hashed_password,
                          is_admin |-> IF data.schema = "UserUpdateAdminSchema"
                                       THEN data.is_admin ELSE None])
        w == Repository_update(rows, {Eq("id", user_id)}, obj_in)
    IN IF w.error = "IntegrityError"
       THEN Failed("ConflictException", "IntegrityError", <<"UPDATE">>, w.rows)
       ELSE IF w.error # ""
       THEN Failed(w.error, "", <<"UPDATE">>, w.rows)
       ELSE LET updated_user == CHOOSE r \in w.returning : TRUE
            IN Returned(UserGetAdminSchema(updated_user), <<"UPDATE", "COMMIT">>,
                        w.rows, Some(w.rows))

\* the requests whose service method is running
InFlight == { r \in Requests : reqs[r].pc \notin {"free", "done"} }

\* a request arrives and is given a unit of work; before and during record the
\* emails of the committed rows and the requests in flight at that moment
ConcBegin ==
    \E r \in Requests, c \in ConcCalls :
       /\ reqs[r].pc = "free"
       /\ reqs' = [reqs EXCEPT ![r] = [Free EXCEPT !.op = c.op, !.args = c.args,
                                                    !.pc = FirstStatement(c.op),
                                                    !.before = { u.email : u \in users },
                                                    !.during = InFlight \ {r}]]
       /\ UNCHANGED <<users, view, call, deleted, passwords, settings>>

\* UserService.create, AuthService.register: the INSERT
ConcInsert ==
    \E r \in Requests :
       /\ reqs[r].pc = "insert"
       /\ ~Waits(r, {}, {reqs[r].args.email})
       /\ \E uuid4 \in Ids \ (IdsOf(users) \cup UNION { p.ids : p \in OtherWrites(r) }),
             now \in Now(users) :
            LET out == IF reqs[r].op = "create"
                       THEN UserService_create(users, reqs[r].args, uuid4, now)
                       ELSE AuthService_register(users, reqs[r].args, uuid4, now)
            IN IF out.error # "" THEN Done(r, out)
               ELSE reqs' = [reqs EXCEPT ![r].pc = "commit", ![r].result = out.result,
                                         ![r].pending = Write({uuid4}, users, out.rows)]
       /\ UNCHANGED <<users, view, call, deleted, passwords, settings>>

\* BaseService.update, BaseService.delete: get_by_id
ConcCheck ==
    \E r \in Requests :
       /\ reqs[r].pc = "check"
       /\ LET found == BaseService_get_by_id(users, reqs[r].args.id)
          IN IF found.error # "" THEN Done(r, found)
             ELSE reqs' = [reqs EXCEPT ![r].pc = "write"]
       /\ UNCHANGED <<users, view, call, deleted, passwords, settings>>

\* UserService.update: the UPDATE
ConcUpdate ==
    \E r \in Requests :
       /\ reqs[r].pc = "write"
       /\ reqs[r].op = "update"
       /\ ~Waits(r, {reqs[r].args.id}, {Get(reqs[r].args.data.email)})
       /\ LET out == UserService_update_statement(users, reqs[r].args.id,
                                                   reqs[r].args.data)
          IN IF out.error # "" THEN Done(r, out)
             ELSE reqs' = [reqs EXCEPT ![r].pc = "commit", ![r].result = out.result,
                                       ![r].pending = Write({reqs[r].args.id},
                                                            users, out.rows)]
       /\ UNCHANGED <<users, view, call, deleted, passwords, settings>>

\* BaseService.delete: the DELETE
ConcDelete ==
    \E r \in Requests :
       /\ reqs[r].pc = "write"
       /\ reqs[r].op = "delete"
       /\ ~Waits(r, {reqs[r].args.id}, {})
       /\ LET w == Repository_delete(users, [id |-> reqs[r].args.id])
          IN reqs' = [reqs EXCEPT ![r].pc = "commit",
                                  ![r].pending = Write({reqs[r].args.id}, users, w.rows)]
       /\ UNCHANGED <<users, view, call, deleted, passwords, settings>>

\* session.commit() of create, register, update and delete
ConcCommit ==
    \E r \in Requests :
       /\ reqs[r].pc = "commit"
       /\ LET p == Get(reqs[r].pending)
          IN users' = (users \ p.del) \cup p.put
       /\ reqs' = [reqs EXCEPT ![r].pc = "done", ![r].pending = None]
       /\ UNCHANGED <<view, call, deleted, passwords, settings>>

\* BaseService.get_all: the page query
ConcPage ==
    \E r \in Requests :
       /\ reqs[r].pc = "page"
       /\ LET q == reqs[r].args
          IN \E objects_db \in Repository_get_all_with_pagination_from_stmt(
                                   users, q.limit, Some(q.offset),
                                   UserRepository_get_stmt_by_query(q)) :
               IF Len(objects_db) = 0
               THEN Done(r, BaseService_get_all(users, q, objects_db))
               ELSE reqs' = [reqs EXCEPT ![r].pc = "count", ![r].page = objects_db]
       /\ UNCHANGED <<users, view, call, deleted, passwords, settings>>

\* BaseService.get_all: the count query and the result
ConcCount ==
    \E r \in Requests :
       /\ reqs[r].pc = "count"
       /\ Done(r, BaseService_get_all(users, reqs[r].args, reqs[r].page))
       /\ UNCHANGED <<users, view, call, deleted, passwords, settings>>

\* the response is sent and the unit of work closed
ConcEnd ==
    \E r \in Requests :
       /\ reqs[r].pc = "done"
       /\ reqs' = [o \in Requests |->
                     IF o = r THEN Free ELSE [reqs[o] EXCEPT !.during = @ \ {r}]]
       /\ UNCHANGED <<users, view, call, deleted, passwords, settings>>

ConcNext ==
    \/ ConcBegin
    \/ ConcInsert
    \/ ConcCheck
    \/ ConcUpdate
    \/ ConcDelete
    \/ ConcCommit
    \/ ConcPage
    \/ ConcCount
    \/ ConcEnd

ConcSpec == Init /\ [][ConcNext]_vars

\* ----------------------------------------------------------- properties
Range(seq) == { seq[i] : i \in 1..Len(seq) }

\* the row with a given identifier
RowById(rows, id) == CHOOSE r \in rows : r.id = id

\* the call committed nothing: no COMMIT among its statements and the committed
\* rows are those it started from
NothingCommitted == "COMMIT" \notin Range(call.log) /\ users = call.before

\* C1: a service create whose email an existing record already holds fails with
\* ConflictException wrapping the IntegrityError of the store, issues no commit
\* and leaves the committed records as they were.
C1_CreateDuplicateConflicts ==
    (call.op = "create" /\ \E r \in call.before : r.email = call.args.email)
    => /\ call.error = "ConflictException"
       /\ call.cause = "IntegrityError"
       /\ NothingCommitted

C1_Witness ==
    /\ call.op = "create"
    /\ \E r \in call.before : r.email = call.args.email
    /\ call.error = "ConflictException"

\* C2: a service create with an unused email succeeds, and get_by_id on the
\* returned identifier then gives a record with the email of the input and,
\* for UserCreateAdminSchema, the is_admin of the input.
C2_CreateThenGetById ==
    (call.op = "create" /\ \A r \in call.before : r.email # call.args.email)
    => /\ call.error = ""
       /\ LET got == BaseService_get_by_id(users, call.result.id)
          IN /\ got.error = ""
             /\ got.result.email = call.args.email
             /\ call.args.schema = "UserCreateAdminSchema"
                  => got.result.is_admin = Get(call.args.is_admin)

\* the target of a successful update, before and after it
UpdateDone == call.op = "update" /\ call.error = ""
Old == RowById(call.before, call.args.id)
New == RowById(users, call.args.id)

\* what C3 says of the fields an update leaves alone, and of email and is_admin
PatchFrame ==
    /\ New.id = Old.id
    /\ New.created_at = Old.created_at
    /\ New.email = IF call.args.data.email = None
                   THEN Old.email ELSE Get(call.args.data.email)
    /\ New.is_admin = IF call.args.data.is_admin = None
                      THEN Old.is_admin ELSE Get(call.args.data.is_admin)
    /\ call.result = [id |-> New.id, email |-> New.email, is_admin |-> New.is_admin]
    /\ users = (call.before \ {Old}) \cup {New}

\* C3 as stated: every field given a non-null value has the new value, the
\* hashed password being the hash of any non-null password supplied.
C3_Original ==
    UpdateDone
    => /\ PatchFrame
       /\ New.hashed_password = IF call.args.data.password = None
                                THEN Old.hashed_password
                                ELSE Generate(Get(call.args.data.password))

\* C3 amended: patch semantics, where the password counts as supplied only when
\* it is a non-empty string; a null, omitted or empty password keeps the stored
\* hash.
C3_PatchSemantics ==
    UpdateDone
    => /\ PatchFrame
       /\ New.hashed_password =
            IF call.args.data.password = None \/ Get(call.args.data.password) = <<>>
            THEN Old.hashed_password
            ELSE Generate(Get(call.args.data.password))

C3_Witness ==
    /\ UpdateDone
    /\ call.args.data.email = None
    /\ call.args.data.password \in {Some(p) : p \in PasswordPool}
    /\ New.hashed_password # Old.hashed_password
    /\ call.args.data.is_admin # None
    /\ New.is_admin # Old.is_admin

\* C4: a service update that gives a record the email of a different record
\* fails with ConflictException, issues no commit and leaves both records as
\* committed.
EmailTaken ==
    /\ call.op = "update"
    /\ call.args.id \in IdsOf(call.before)
    /\ call.args.data.email # None
    /\ \E r \in call.before :
         r.id # call.args.id /\ r.email = Get(call.args.data.email)

C4_UpdateDuplicateConflicts ==
    EmailTaken
    => /\ call.error = "ConflictException"
       /\ call.cause = "IntegrityError"
       /\ NothingCommitted

C4_Witness == EmailTaken /\ call.error = "ConflictException"

\* C5: service update and delete of an identifier no record has fail with
\* NotFoundException after the lookup alone: no UPDATE or DELETE statement is
\* executed, nothing is committed and the store is unchanged.
NoSuchId == call.op \in {"update", "delete"} /\ call.args.id \notin IdsOf(call.before)

C5_MissingIdNotFound ==
    NoSuchId
    => /\ call.error = "NotFoundException"
       /\ call.log = <<"SELECT">>
       /\ view = call.before
       /\ NothingCommitted

C5_Witness ==
    /\ NoSuchId
    /\ call.op = "update"
    /\ call.error = "NotFoundException"
    /\ call.before # {}

\* C6: once the service has deleted identifier i, and until the next create,
\* no record has identifier i and every get_by_id(i), update(i, ...) and
\* delete(i) fails with NotFoundException.
C6_DeletedStaysDeleted ==
    /\ deleted \cap IdsOf(users) = {}
    /\ (call.op \in {"get_by_id", "update", "delete"} /\ call.args.id \in deleted)
       => \/ call.error = "NotFoundException"
          \/ /\ call.op = "delete"
             /\ call.error = ""
             /\ call.args.id \in IdsOf(call.before)

C6_Witness ==
    /\ call.op \in {"get_by_id", "update", "delete"}
    /\ call.args.id \in deleted
    /\ call.args.id \notin IdsOf(call.before)
    /\ call.error = "NotFoundException"
    /\ users # {}

\* C7: get_by_id(i) returns the record with identifier i when there is exactly
\* one and fails with NotFoundException when there is none; either way it runs
\* one SELECT, writes nothing and commits nothing.
C7_GetById ==
    call.op = "get_by_id"
    => LET hit == { r \in call.before : r.id = call.args.id }
       IN /\ Cardinality(hit) = 1
               => /\ call.error = ""
                  /\ \E r \in hit :
                       call.result = [id |-> r.id, email |-> r.email,
                                      is_admin |-> r.is_admin]
          /\ hit = {} => call.error = "NotFoundException"
          /\ call.log = <<"SELECT">>
          /\ view = call.before
          /\ NothingCommitted

C7_Witness ==
    /\ call.op = "get_by_id"
    /\ call.error = ""
    /\ call.result.id = call.args.id
    /\ Cardinality(call.before) = MaxUsers

\* s occurs in t, letter case ignored
ContainsIgnoringCase(t, s) ==
    \E i \in 1..(Len(t) + 1) : \E j \in (i - 1)..Len(t) :
        LowerStr(SubSeq(t, i, j)) = LowerStr(s)

\* the store's reading of a pattern-match filter on text t with substring s
PatternMatches(t, s) == ILike(t, Contains(s))

\* the record passes the filters of a list query as the store evaluates them:
\* the email filter when it is a non-empty string, the is_admin filter when it
\* is given
PassesQuery(r, q) ==
    /\ (q.email # None /\ Get(q.email) # <<>>)
          => PatternMatches(r.email, Get(q.email))
    /\ q.is_admin # None => r.is_admin = Get(q.is_admin)

\* K = MatchTotal, O = QueryOffset, L = the limit (no limit is L = K) and
\* PageSize = min(L, max(0, K - O)) of a list query
QueryMatches == { r \in call.before : PassesQuery(r, call.args) }
MatchTotal == Cardinality(QueryMatches)
QueryOffset == call.args.offset
PageSize ==
    LET k == MatchTotal
        l == IF call.args.limit = None THEN k ELSE Get(call.args.limit)
    IN Min(l, IF k - QueryOffset > 0 THEN k - QueryOffset ELSE 0)

\* the arrangements of the matching records in the sort order the query asks for
SortedMatches ==
    { s \in Arrangements(QueryMatches) :
        \A i, j \in 1..Len(s) : i < j =>
            IF call.args.asc THEN s[i].created_at <= s[j].created_at
                             ELSE s[i].created_at >= s[j].created_at }

\* the call returned positions O+1 .. O+PageSize of the sorted matching records
\* and their total number
ReturnsPage ==
    /\ call.error = ""
    /\ Len(call.result.data) = PageSize
    /\ call.result.count = MatchTotal
    /\ \E s \in SortedMatches :
         \A i \in 1..PageSize :
             call.result.data[i] = [id |-> s[QueryOffset + i].id, email |-> s[QueryOffset + i].email,
                                    is_admin |-> s[QueryOffset + i].is_admin]

\* C8 as stated: get_all returns min(L, max(0, K-O)) records, the positions
\* O .. O+L-1 of the sorted matching records, with count = K, for every L and O.
C8_Original == call.op = "get_all" => ReturnsPage

\* C8 amended: when min(L, max(0, K-O)) is at least 1, get_all returns that many
\* records, the positions O .. O+L-1 of the sorted matching records, with
\* count = K whatever L and O are; when it is 0, get_all fails with
\* NotFoundException instead of returning an empty list.
C8_GetAllPage ==
    call.op = "get_all"
    => IF call.error = "" THEN PageSize >= 1 /\ ReturnsPage
       ELSE PageSize = 0 /\ call.error = "NotFoundException"

C8_Witness ==
    /\ call.op = "get_all"
    /\ call.error = ""
    /\ MatchTotal = 2
    /\ QueryOffset = 1
    /\ call.args.limit = Some(2)
    /\ Len(call.result.data) = 1
    /\ call.result.count = 2
    /\ call.args.is_admin = Some(TRUE)

\* the page a list query selects is empty: nothing matches, the offset is at or
\* past the number of matches, or the limit is 0
EmptyPage ==
    LET k == MatchTotal
    IN k = 0 \/ QueryOffset >= k \/ call.args.limit = Some(0)

\* C9: get_all fails with NotFoundException exactly when the selected page is
\* empty, and then it has not run the count query; otherwise it returns a list
\* result.
C9_EmptyPageNotFound ==
    call.op = "get_all"
    => LET empty == EmptyPage
       IN /\ (call.error = "NotFoundException") <=> empty
          /\ empty => call.log = <<"SELECT">>
          /\ ~empty => /\ call.error = ""
                       /\ call.result.data # <<>>
                       /\ call.log = <<"SELECT", "COUNT">>

C9_Witness ==
    /\ call.op = "get_all"
    /\ call.error = "NotFoundException"
    /\ MatchTotal >= 1
    /\ (QueryOffset >= MatchTotal \/ call.args.limit = Some(0))

\* the record passes **filter_by
PassesFilterBy(r, filter_by) == \A c \in DOMAIN filter_by : r[c] = filter_by[c]

\* the number of records a count call has to report
Expected ==
    CASE call.op = "count" ->
           Cardinality({ r \in call.before : PassesFilterBy(r, call.args.filter_by) })
      [] call.op = "count_all_ilike" ->
           Cardinality({ r \in call.before :
               /\ PassesFilterBy(r, call.args.filter_by)
               /\ DOMAIN call.args.search_fields # {}
                    => \E f \in DOMAIN call.args.search_fields :
                         PatternMatches(r[f], call.args.search_fields[f]) })
      [] call.op = "count_subquery" -> MatchTotal

\* C10: count, count_all_ilike and count_subquery return the number of stored
\* records that satisfy their filter, a natural number (0 when none does),
\* whatever limit and offset the query carries.
C10_Counts ==
    call.op \in {"count", "count_all_ilike", "count_subquery"}
    => /\ call.error = ""
       /\ call.result \in Nat
       /\ call.result = Expected

C10_Witness ==
    /\ call.op \in {"count", "count_all_ilike", "count_subquery"}
    /\ call.result = 1
    /\ Cardinality(call.before) = 2

\* the stored users whose email contains s, letter case ignored
UsersContaining(s) == { r \in call.before : ContainsIgnoringCase(r.email, s) }

\* an unpaginated list query that filters by email substring only
EmailQuery ==
    /\ call.op = "get_all"
    /\ call.args.email # None
    /\ call.args.is_admin = None
    /\ call.args.offset = 0
    /\ call.args.limit = None

\* C11: the user list query with email substring s returns exactly the users
\* whose email contains s case-insensitively, and a count equal to their number;
\* it succeeds whenever some user's email contains s.
C11_EmailSubstringQuery ==
    EmailQuery
    => LET hit == UsersContaining(Get(call.args.email))
       IN /\ hit # {} => call.error = ""
          /\ call.error = ""
               => /\ { u.id : u \in Range(call.result.data) } = IdsOf(hit)
                  /\ Len(call.result.data) = Cardinality(hit)
                  /\ call.result.count = Cardinality(hit)

\* the calls made on the repository directly
RepositoryOps ==
    {"count", "count_all_ilike", "count_subquery", "repository_create",
     "get_one_or_none", "get_all_ilike", "get_all_sorted", "repository_update",
     "repository_delete"}

\* the write statement of a service method
WriteOf(op) ==
    CASE op = "create" -> "INSERT" [] op = "update" -> "UPDATE" [] op = "delete" -> "DELETE"

\* the positions of a statement in the call's log
Positions(stmt) == { i \in 1..Len(call.log) : call.log[i] = stmt }

\* C12: a repository call neither commits nor rolls back (the committed records
\* stay as they were); a successful service create, update or delete issues
\* exactly one commit, after its repository write, which publishes that write;
\* service get_by_id and get_all never commit.
C12_CommitDiscipline ==
    /\ call.op \in RepositoryOps
         => /\ Positions("COMMIT") = {}
            /\ Positions("ROLLBACK") = {}
            /\ users = call.before
    /\ (call.op \in {"create", "update", "delete"} /\ call.error = "")
         => /\ Cardinality(Positions("COMMIT")) = 1
            /\ Cardinality(Positions(WriteOf(call.op))) = 1
            /\ \A w \in Positions(WriteOf(call.op)), c \in Positions("COMMIT") : w < c
            /\ users = view
    /\ call.op \in {"get_by_id", "get_all"} => NothingCommitted

C12_Witness ==
    /\ call.op = "delete"
    /\ call.error = ""
    /\ call.log = <<"SELECT", "DELETE", "COMMIT">>
    /\ users # call.before
    /\ users # {}

\* a service create or update that failed after its write statement was sent
FailedAfterWrite ==
    /\ call.op \in {"create", "update"}
    /\ call.error # ""
    /\ Positions(WriteOf(call.op)) # {}

Identified ==
    { u \in call.before :
        /\ u.email = call.args.email
        /\ u.hashed_password = Generate(call.args.password) }

\* C14: login returns a token pair issued for user u exactly when the store
\* holds a user u with the given email whose hashed_password is
\* HashService.generate(password); otherwise it fails with NotFoundException and
\* issues no tokens; it never writes to the store.
C14_Login ==
    call.op = "login"
    => /\ Identified # {}
            => /\ call.error = ""
               /\ \E u \in Identified : call.result = JWTService_create_tokens(u.id)
       /\ Identified = {}
            => /\ call.error = "NotFoundException"
               /\ Positions("create_tokens") = {}
       /\ call.log \in {<<"SELECT">>, <<"SELECT", "create_tokens">>}
       /\ view = call.before
       /\ NothingCommitted

C14_Witness ==
    /\ call.op = "login"
    /\ call.error = ""
    /\ Cardinality(call.before) = 2
    /\ \E u \in call.before : u.id # call.result.user_id

\* a login with the email of a stored user and a password that is not theirs
WrongPasswordLogin ==
    /\ call.op = "login"
    /\ call.error = "NotFoundException"
    /\ \E u \in call.before : u.email = call.args.email

\* C15: register with an email no stored user holds creates and commits exactly
\* one user with that email and hashed_password = HashService.generate(password)
\* and then returns a token pair issued for the new identifier; with an email
\* already in use it fails with ConflictException, issues no tokens and leaves
\* the users unchanged.
C15_Register ==
    call.op = "register"
    => IF \A r \in call.before : r.email # call.args.email
       THEN /\ call.error = ""
            /\ \E u \in users \ call.before :
                 /\ users = call.before \cup {u}
                 /\ u.email = call.args.email
                 /\ u.hashed_password = Generate(call.args.password)
                 /\ u.id \notin IdsOf(call.before)
                 /\ call.result = JWTService_create_tokens(u.id)
            /\ call.log = <<"INSERT", "COMMIT", "create_tokens">>
       ELSE /\ call.error = "ConflictException"
            /\ Positions("create_tokens") = {}
            /\ users = call.before
            /\ view = call.before

C15_Witness ==
    /\ call.op = "register"
    /\ call.error = ""
    /\ Cardinality(users) = 2
    /\ call.result.user_id \in IdsOf(users) \ IdsOf(call.before)

\* a register refused because the email is in use
RefusedRegister ==
    /\ call.op = "register"
    /\ call.error = "ConflictException"
    /\ \E r \in call.before : r.email = call.args.email

\* the records **filter_by of the call selects
Selected == { r \in call.before : PassesFilterBy(r, call.args.filter_by) }

\* C16: get_one_or_none returns the matching record when exactly one record
\* satisfies the filters, None when no record does, and fails with
\* MultipleResultsFound when more than one does; it never changes the store.
C16_GetOneOrNone ==
    call.op = "get_one_or_none"
    => /\ Cardinality(Selected) = 1
            => call.error = "" /\ call.result \in { Some(r) : r \in Selected }
       /\ Selected = {} => call.error = "" /\ call.result = None
       /\ Cardinality(Selected) > 1 => call.error = "MultipleResultsFound"
       /\ view = call.before
       /\ users = call.before

C16_Witness ==
    /\ call.op = "get_one_or_none"
    /\ Cardinality(Selected) = 2
    /\ call.error = "MultipleResultsFound"
    /\ DOMAIN call.args.filter_by # {}

\* get_one_or_none finding the one record that matches among two
OneOfTwoFound ==
    /\ call.op = "get_one_or_none"
    /\ Cardinality(call.before) = 2
    /\ call.error = ""
    /\ call.result # None

\* the records a pattern-match list call has to select: all the ordinary
\* filters and, when fields are listed, at least one listed field containing
\* its substring, letter case ignored
Wanted ==
    { r \in call.before :
        /\ PassesFilterBy(r, call.args.filter_by)
        /\ DOMAIN call.args.search_fields # {}
             => \E f \in DOMAIN call.args.search_fields :
                  ContainsIgnoringCase(r[f], call.args.search_fields[f]) }

\* C17: get_all_ilike returns records that satisfy all the ordinary filters and,
\* when the field-to-substring map is not empty, have at least one listed field
\* that contains its substring case-insensitively, and only those; the result is
\* the offset/limit page of them, the empty list when nothing matches.
C17_GetAllIlike ==
    call.op = "get_all_ilike"
    => /\ call.error = ""
       /\ Range(call.result) \subseteq Wanted
       /\ Cardinality(Range(call.result)) = Len(call.result)
       /\ Len(call.result) =
            Min(call.args.limit,
                IF Cardinality(Wanted) > call.args.offset
                THEN Cardinality(Wanted) - call.args.offset ELSE 0)

\* the arrangements of the selected records in the order get_all_sorted is
\* asked for (every stored record has a value in the sort field)
SortedSelected ==
    { s \in Arrangements(Selected) :
        \A i, j \in 1..Len(s) : i < j =>
            IF call.args.ascending
            THEN s[i][call.args.sort_field] <= s[j][call.args.sort_field]
            ELSE s[i][call.args.sort_field] >= s[j][call.args.sort_field] }

\* C18: get_all_sorted returns the records that satisfy the filters (and have a
\* value in the sort field), ordered by that field ascending when ascending is
\* true and descending otherwise, cut to the first limit records when a limit
\* is given and complete when it is not.
C18_GetAllSorted ==
    call.op = "get_all_sorted"
    => LET n == IF call.args.limit = None THEN Cardinality(Selected)
                ELSE Min(Get(call.args.limit), Cardinality(Selected))
       IN /\ call.error = ""
          /\ Len(call.result) = n
          /\ \E s \in SortedSelected : \A i \in 1..n : call.result[i] = s[i]

C18_Witness ==
    /\ call.op = "get_all_sorted"
    /\ ~call.args.ascending
    /\ call.args.sort_field = "created_at"
    /\ call.args.limit = Some(1)
    /\ Cardinality(Selected) = 2
    /\ \E r \in Selected : r.created_at < call.result[1].created_at

\* get_all_sorted returning every selected record when no limit is given
SortedComplete ==
    /\ call.op = "get_all_sorted"
    /\ call.args.limit = None
    /\ call.args.ascending
    /\ Len(call.result) = 2
    /\ call.result[1].created_at < call.result[2].created_at

\* the records the match condition of a repository update selects
Hit == Matching(call.before, call.args.where)

\* the fields of obj_in that carry a value, and the fields it gives as null
NonNullFields == { g \in DOMAIN call.args.obj_in.vals : call.args.obj_in.vals[g] # None }
NullFields == DOMAIN call.args.obj_in.vals \ NonNullFields

\* the records after the non-null fields of obj_in are applied to the matching
\* records
Patch == [f \in NonNullFields |-> Get(call.args.obj_in.vals[f])]
PatchedHit == { [c \in DOMAIN r |-> IF c \in DOMAIN Patch THEN Patch[c] ELSE r[c]] : r \in Hit }
AfterPatch == (call.before \ Hit) \cup PatchedHit

\* a null reaches the store: the input is a dict that gives a field as null
NullSent == call.args.obj_in.kind = "dict" /\ NullFields # {}

\* identifiers and emails stay unique under the non-null fields
StaysUnique ==
    /\ Cardinality(AfterPatch) = Cardinality(call.before)
    /\ UniqueHolds(AfterPatch)

\* the store accepts the update: it matches no record, or it sets no NOT NULL
\* column to null and identifiers and emails stay unique
PatchAccepted == Hit = {} \/ (~NullSent /\ StaysUnique)

\* C19 as stated: repository update applies the patch to every matching record
\* and returns the updated records, with no error whatever their number.
C19_Original ==
    (call.op = "repository_update" /\ PatchAccepted /\ Hit # {})
    => /\ call.error = ""
       /\ view = AfterPatch
       /\ call.result = PatchedHit

\* C19 amended: when the store accepts the patch (the non-null fields of a
\* typed input, the entries of a dict as given), repository update applies it
\* to every matching record within the unit of work, and returns the updated
\* record when exactly one matched; it fails with NoResultFound when none
\* matched and with MultipleResultsFound when two or more matched, the records
\* being already updated in the uncommitted unit of work. A patch the store
\* rejects fails with IntegrityError and changes nothing.
C19_RepositoryUpdate ==
    call.op = "repository_update"
    => /\ users = call.before
       /\ IF PatchAccepted
          THEN /\ view = AfterPatch
               /\ Cardinality(Hit) = 1 => call.error = "" /\ call.result = PatchedHit
               /\ Hit = {} => call.error = "NoResultFound"
               /\ Cardinality(Hit) > 1 => call.error = "MultipleResultsFound"
          ELSE /\ call.error = "IntegrityError"
               /\ view = call.before

C19_Witness ==
    /\ call.op = "repository_update"
    /\ Cardinality(Hit) = 2
    /\ call.error = "MultipleResultsFound"
    /\ view = AfterPatch
    /\ view # call.before

\* a repository update of the one record its condition matches, among two
OneOfTwoUpdated ==
    /\ call.op = "repository_update"
    /\ call.error = ""
    /\ Cardinality(call.before) = 2
    /\ view # call.before

\* C20: repository delete removes every record that satisfies the filters and
\* no other record, raises no error when no record matches, and returns
\* nothing; the records that do not match are unchanged (and nothing is
\* committed by the repository).
C20_RepositoryDelete ==
    call.op = "repository_delete"
    => /\ call.error = ""
       /\ call.result = None
       /\ view = call.before \ Selected
       /\ users = call.before

C20_Witness ==
    /\ call.op = "repository_delete"
    /\ Cardinality(Selected) = 1
    /\ Cardinality(view) = 1
    /\ view \subseteq call.before

\* a repository delete whose filters no stored record satisfies
NothingToDelete ==
    /\ call.op = "repository_delete"
    /\ Selected = {}
    /\ call.before # {}
    /\ call.error = ""

\* the committed records other than the one a call names
Others(rows) == { r \in rows : r.id # call.args.id }

\* C21: no service call changes the identifier of a record, and a service
\* update(i, ...) or delete(i) changes at most the record whose identifier is
\* i: the records with another identifier are the same before and after, an
\* update keeps the set of identifiers (and the creation time of its target), a
\* delete removes identifier i alone, and a create leaves every existing record
\* as it was.
C21_OnlyTargetChanges ==
    /\ call.op \in {"update", "delete"}
         => /\ Others(users) = Others(call.before)
            /\ call.op = "update"
                 => /\ IdsOf(users) = IdsOf(call.before)
                    /\ \A r \in users : \E b \in call.before :
                         b.id = r.id /\ b.created_at = r.created_at
            /\ call.op = "delete"
                 => IdsOf(users) \in {IdsOf(call.before), IdsOf(call.before) \ {call.args.id}}
    /\ call.op \in {"create", "register"} => call.before \subseteq users

C21_Witness ==
    /\ call.op = "update"
    /\ call.error = ""
    /\ users # call.before
    /\ Cardinality(call.before) = 2
    /\ Others(users) # {}

\* a service delete of one record among two
OneOfTwoDeleted ==
    /\ call.op = "delete"
    /\ call.error = ""
    /\ Cardinality(call.before) = 2
    /\ Cardinality(users) = 1

\* C23: the user list operation filters by every query parameter that is not
\* None; a query carrying id = i returns no user whose identifier differs from
\* i, and its count is the number of users that pass all the filters, the id
\* filter included.
C23_FiltersByEveryParameter ==
    (call.op = "get_all" /\ call.error = "" /\ call.args.id # None)
    => /\ \A u \in Range(call.result.data) : u.id = Get(call.args.id)
       /\ call.result.count =
            Cardinality({ r \in QueryMatches : r.id = Get(call.args.id) })

\* every record the unit of work sees has, in the fields obj_in gives as null,
\* the value that was stored before the call
NullFieldsKept ==
    \A r \in view : \E b \in call.before :
        b.id = r.id /\ \A f \in NullFields : b[f] = r[f]

\* a repository update of exactly one record whose input gives a field as null
\* and whose other fields the store can take
NullGiven ==
    /\ call.op = "repository_update"
    /\ NullFields # {}
    /\ Cardinality(Hit) = 1
    /\ StaysUnique

\* C24 as stated: for the typed input and for the dict alike, the fields given
\* as null are left out of the update: the other fields are written and the
\* null ones keep their stored value.
C24_Original ==
    NullGiven
    => /\ call.error = ""
       /\ view = AfterPatch
       /\ NullFieldsKept

\* C24 amended: for the typed input the fields given as null are left out of
\* the update, the other fields are written; a dict is sent as it is, so a
\* null in it makes the store reject the update (IntegrityError) with nothing
\* written; in both forms a field given as null keeps its stored value.
C24_NullFields ==
    NullGiven
    => /\ NullFieldsKept
       /\ IF call.args.obj_in.kind = "dict"
          THEN call.error = "IntegrityError" /\ view = call.before
          ELSE call.error = "" /\ view = AfterPatch

C24_Witness ==
    /\ NullGiven
    /\ call.args.obj_in.kind = "dict"
    /\ call.error = "IntegrityError"
    /\ view = call.before
    /\ AfterPatch # call.before

\* a typed update that gives two fields as null and writes the third
TypedNullLeftOut ==
    /\ NullGiven
    /\ call.args.obj_in.kind = "schema"
    /\ call.error = ""
    /\ view # call.before

\* C25: the asc field of the list result is the sort direction used for the
\* page: true exactly when the query asked for ascending creation time, false
\* when the query's asc flag is false.
C25_AscField ==
    (call.op = "get_all" /\ call.error = "")
    => call.result.asc = call.args.asc

\* every user has the is_admin value it had before the call
IsAdminKept ==
    \A r \in users : \A b \in call.before : b.id = r.id => b.is_admin = r.is_admin

\* C29: a user update made with UserUpdateSchema never changes the is_admin
\* value of any user, whatever email and password it carries; only an update
\* carrying UserUpdateAdminSchema changes an is_admin value.
C29_NonAdminUpdateKeepsIsAdmin ==
    call.op = "update"
    => /\ call.args.data.schema = "UserUpdateSchema" => IsAdminKept
       /\ ~IsAdminKept => call.args.data.schema = "UserUpdateAdminSchema"

C29_Witness ==
    /\ UpdateDone
    /\ call.args.data.schema = "UserUpdateSchema"
    /\ Old.is_admin
    /\ New.is_admin
    /\ New.email # Old.email
    /\ New.hashed_password # Old.hashed_password

\* the stored users that hold email e and whose password last set is p
HoldersOf(e, p) == { u \in users : u.email = e /\ passwords[u.id] = Some(p) }

\* C30: after any sequence of register, create, update and delete calls,
\* login(e, p) succeeds if and only if a user holds email e and p is the
\* password last set for that user, at creation or by the latest update that
\* carried a non-empty password; exactly the stored users have a password.
C30_LoginFollowsLastPassword ==
    /\ \A id \in Ids : passwords[id] # None <=> id \in IdsOf(users)
    /\ call.op = "login"
         => /\ call.error = "" <=> HoldersOf(call.args.email, call.args.password) # {}
            /\ call.error = ""
                 => \E u \in HoldersOf(call.args.email, call.args.password) :
                      call.result = JWTService_create_tokens(u.id)

\* a login that succeeds for a user an update has written since its creation
\* (only an update makes an administrator), with the password last set
C30_Witness ==
    /\ call.op = "login"
    /\ call.error = ""
    /\ call.args.password = <<"q">>
    /\ \E u \in users :
         /\ u.email = call.args.email
         /\ u.is_admin
         /\ u.hashed_password = Generate(<<"q">>)

\* a login refused with the password an update has replaced
ReplacedPasswordRefused ==
    /\ call.op = "login"
    /\ call.error = "NotFoundException"
    /\ call.args.password = <<"p">>
    /\ \E u \in users : u.email = call.args.email /\ passwords[u.id] = Some(<<"q">>)

\* C22: the health check always answers with status "OK", the configured
\* MODE and the configured APP_VERSION, in every state of the store and after
\* any earlier calls, and it neither reads nor writes the store: it issues no
\* statement and leaves the committed rows and the unit of work as they were.
C22_HealthCheck ==
    call.op = "health_check"
      => /\ call.error = ""
         /\ call.result = [mode |-> settings.MODE, version |-> settings.APP_VERSION,
                            status |-> "OK"]
         /\ call.log = <<>>
         /\ users = call.before
         /\ view = call.before

\* a health check of a PROD deployment of version 0.2.0 whose store holds a
\* user, after a user has been deleted
C22_Witness ==
    /\ call.op = "health_check"
    /\ call.result.mode = "PROD"
    /\ call.result.version = "0.2.0"
    /\ users # {}
    /\ deleted # {}

\* the requests that have ended a call of op
Ended(op) == { r \in Requests : reqs[r].op = op /\ reqs[r].pc = "done" }

\* C26: under every interleaving of concurrent requests, a service update
\* ends by returning the updated record, by NotFoundException or by
\* ConflictException, and by nothing else; when another request deletes the
\* record between the existence check and the UPDATE, by NotFoundException.
C26_UpdateOutcomes ==
    \A r \in Ended("update") :
       /\ reqs[r].error \in {"", "NotFoundException", "ConflictException"}
       /\ reqs[r].error = ""
            => /\ reqs[r].result.id = reqs[r].args.id
               /\ reqs[r].result.email = Get(reqs[r].args.data.email)

\* an update whose record another request deleted after the existence check
UpdateOfDeleted ==
    \E r \in Ended("update"), o \in Ended("delete") :
       /\ reqs[r].args.id = reqs[o].args.id
       /\ reqs[r].error \notin {"", "NotFoundException", "ConflictException"}

\* the two requests were in flight at the same time
Concurrent(r, o) == o \in reqs[r].during \/ r \in reqs[o].during

\* the request began when no committed row held the email
BeganUnused(r, e) == e \notin reqs[r].before

\* C27: in every committed state, under any interleaving of concurrent
\* register, create and update calls, no two user records hold the same
\* email; of two concurrent creates of the same unused email exactly one
\* succeeds and the other fails with ConflictException.
C27_UniqueEmails ==
    /\ \A u, v \in users : u.email = v.email => u = v
    /\ \A r, o \in Ended("create") :
         /\ Concurrent(r, o)
         /\ reqs[r].args.email = reqs[o].args.email
         /\ BeganUnused(r, reqs[r].args.email)
         /\ BeganUnused(o, reqs[o].args.email)
         => {reqs[r].error, reqs[o].error} = {"", "ConflictException"}

\* two concurrent creates of one unused email have both ended, one of them
\* refused, and the email is stored
C27_Witness ==
    /\ \E r, o \in Ended("create") :
         /\ Concurrent(r, o)
         /\ reqs[r].args.email = reqs[o].args.email
         /\ BeganUnused(r, reqs[r].args.email)
         /\ BeganUnused(o, reqs[o].args.email)
         /\ reqs[o].error = "ConflictException"
         /\ reqs[r].error = ""
         /\ \E u \in users : u.email = reqs[r].args.email

\* an update to an email that a concurrent create was inserting is refused
UpdateRefusedByCreate ==
    \E r \in Ended("update"), o \in Ended("create") :
       /\ reqs[r].error = "ConflictException"
       /\ reqs[o].error = ""
       /\ Get(reqs[r].args.data.email) = reqs[o].args.email
       /\ BeganUnused(r, reqs[o].args.email)
       /\ Concurrent(r, o)

\* C28: whenever get_all returns a list, its count is at least the number of
\* records in its data and at least 1, also when other requests commit
\* between the page query and the count query of the call.
C28_CountCoversData ==
    \A r \in Ended("get_all") :
       reqs[r].error = ""
         => /\ reqs[r].result.count >= Len(reqs[r].result.data)
            /\ reqs[r].result.count >= 1

\* a list returned with more records than it counts
CountBelowData ==
    \E r \in Ended("get_all") :
       /\ reqs[r].error = ""
       /\ reqs[r].result.count < Len(reqs[r].result.data)

====
